---- MODULE Spec2Model ----
(***************************************************************************)
(* Model of mega/op/arithmethic.pyx: the extension type SigmaZ             *)
(* (divisor power sum, sigma_z(n)) and the function euler_phi (Euler's     *)
(* totient).  C ints are 32 bit signed, C long is 64 bit signed, pow() is  *)
(* the IEEE-754 double precision function of libc.                         *)
(***************************************************************************)
EXTENDS Integers, Sequences, FiniteSets, TLC

VARIABLES
    pqueue,   \* euler_phi: arguments of the calls the caller still has to make
    prets,    \* euler_phi: <<argument, returned value>> of every call that returned
    phi,      \* euler_phi: the frame of the running call
    req,      \* SigmaZ: the arguments (n, z) the constructor is called with
    ctor,     \* SigmaZ: "pending", "ok", or the ValueError __cinit__ raised
    inst,     \* SigmaZ: the fields of the constructed instance, shared by the callers
    frames,   \* SigmaZ: per caller, the frame of its compute() or __repr__() call
    returned, \* SigmaZ: the values compute() returned on the shared instance
    reprs,    \* SigmaZ: the strings __repr__() returned, as <<n, z, value>>
    libm      \* pow(): <<base, exponent, value>> of the inexact results it gave so far

phivars == <<pqueue, prets, phi>>
sigmavars == <<req, ctor, inst, frames, returned, reprs, libm>>
vars == <<pqueue, prets, phi, req, ctor, inst, frames, returned, reprs, libm>>

(***************************************************************************)
(* Bounds of the explored inputs.                                          *)
(***************************************************************************)
MaxPhiN == 1000   \* euler_phi is called with every n in -MinPhiN .. MaxPhiN
MinPhiN == 2
MaxAB == 16       \* pairs (a, b) in 1..MaxAB for euler_phi(a), euler_phi(b), euler_phi(a*b)
MaxSigmaN == 36    \* SigmaZ is constructed with every n in -1..MaxSigmaN
MaxSigmaZ == 4     \* and every z in -1..MaxSigmaZ
MaxOverflows == 2  \* overflowing evaluations of a loop guard followed in one compute() call

(***************************************************************************)
(* Number theory used as the reference of the claims.                      *)
(***************************************************************************)
RECURSIVE Gcd(_, _)
Gcd(a, b) == IF b = 0 THEN a ELSE Gcd(b, a % b)

IsPrime(p) == p > 1 /\ \A d \in 2..(p - 1) : p % d # 0

\* brute force totient: the number of k in 1..n coprime to n
PhiRef(n) == Cardinality({k \in 1..n : Gcd(k, n) = 1})

PrimeFactors(n) == {q \in 2..n : IsPrime(q) /\ n % q = 0}

\* m with every occurrence of the primes of P divided out
RECURSIVE StripAll(_, _)
StripAll(m, P) ==
    IF \E q \in P : m % q = 0
    THEN StripAll(m \div (CHOOSE q \in P : m % q = 0), P)
    ELSE m

RECURSIVE Product(_)
Product(S) == IF S = {} THEN 1 ELSE LET q == CHOOSE x \in S : TRUE IN q * Product(S \ {q})

RECURSIVE ProductLess1(_)
ProductLess1(S) ==
    IF S = {} THEN 1 ELSE LET q == CHOOSE x \in S : TRUE IN (q - 1) * ProductLess1(S \ {q})

(***************************************************************************)
(* Machine arithmetic.  TLC's integers are 32 bit, so a C long and the     *)
(* exact powers are kept as sequences of limbs, least significant first,   *)
(* base 2^15, without leading zero limbs (zero is <<>>).                   *)
(***************************************************************************)
MaxInt == 2147483647          \* cdef int: 32 bit signed
MinInt == 0 - MaxInt - 1
LongBits == 64                \* cdef long / cpdef long: 64 bit signed
DoubleMantissaBits == 53      \* libc pow() returns an IEEE-754 double

LimbBits == 15                \* a limb times a limb stays below 2^31
Base == 2 ^ LimbBits

RECURSIVE Norm(_)
Norm(a) == IF a # <<>> /\ a[Len(a)] = 0 THEN Norm(SubSeq(a, 1, Len(a) - 1)) ELSE a

RECURSIVE ToLimbs(_)
ToLimbs(k) == IF k = 0 THEN <<>> ELSE <<k % Base>> \o ToLimbs(k \div Base)

RECURSIVE LAddC(_, _, _)
LAddC(a, b, c) ==
    IF a = <<>> /\ b = <<>> THEN (IF c = 0 THEN <<>> ELSE <<c>>)
    ELSE LET x == IF a = <<>> THEN 0 ELSE Head(a)
             y == IF b = <<>> THEN 0 ELSE Head(b)
             s == x + y + c
         IN <<s % Base>> \o LAddC(IF a = <<>> THEN <<>> ELSE Tail(a),
                                   IF b = <<>> THEN <<>> ELSE Tail(b), s \div Base)

LAdd(a, b) == LAddC(a, b, 0)

RECURSIVE LMulSmallC(_, _, _)
LMulSmallC(a, k, c) ==
    IF a = <<>> THEN (IF c = 0 THEN <<>> ELSE <<c>>)
    ELSE LET s == Head(a) * k + c
         IN <<s % Base>> \o LMulSmallC(Tail(a), k, s \div Base)

RECURSIVE LMul(_, _)
LMul(a, b) ==
    IF a = <<>> \/ b = <<>> THEN <<>>
    ELSE LET rest == LMul(a, Tail(b))
         IN Norm(LAdd(LMulSmallC(a, Head(b), 0),
                      IF rest = <<>> THEN <<>> ELSE <<0>> \o rest))

\* the exact power a^e, by repeated squaring
RECURSIVE LPow(_, _)
LPow(a, e) ==
    IF e = 0 THEN <<1>>
    ELSE LET half == LPow(a, e \div 2)
             square == LMul(half, half)
         IN IF e % 2 = 1 THEN LMul(square, a) ELSE square

\* the number of bits of a > 0
BitLen(a) ==
    IF a = <<>> THEN 0
    ELSE LimbBits * (Len(a) - 1)
         + (CHOOSE b \in 1..LimbBits : 2 ^ (b - 1) <= a[Len(a)] /\ a[Len(a)] < 2 ^ b)

\* bit j of a, bit 1 the least significant
Bit(a, j) == (a[((j - 1) \div LimbBits) + 1] \div (2 ^ ((j - 1) % LimbBits))) % 2

\* 2^e
PowerOfTwo(e) == [j \in 1..(e \div LimbBits) |-> 0] \o <<2 ^ (e % LimbBits)>>

\* a with its k low bits cleared
ClearLow(a, k) ==
    Norm([l \in 1..Len(a) |->
            IF LimbBits * l <= k THEN 0
            ELSE IF LimbBits * (l - 1) >= k THEN a[l]
            ELSE a[l] - (a[l] % (2 ^ (k - LimbBits * (l - 1))))])

\* the doubles next to the integer a: a itself when 53 bits hold it, else the
\* double below and the double above.  libc's pow() is accurate to less than one
\* unit in the last place, not correctly rounded: for an exact power a it
\* returns a when a is a double, and one of its two neighbours otherwise.
DoublesNear(a) ==
    IF BitLen(a) <= DoubleMantissaBits THEN {a}
    ELSE LET k == BitLen(a) - DoubleMantissaBits
             below == ClearLow(a, k)
         IN IF below = a THEN {a} ELSE {below, Norm(LAdd(below, PowerOfTwo(k)))}

\* a value a C long can hold
FitsLong(a) == BitLen(a) < LongBits

\* the product i * i is a C int
SquareFitsInt(i) == i <= MaxInt \div i

\* <int>sqrt(n): the integer part of the double square root, exact for a C int
RECURSIVE ISqrtBetween(_, _, _)
ISqrtBetween(n, lo, hi) ==
    IF lo >= hi THEN lo
    ELSE LET mid == (lo + hi + 1) \div 2
         IN IF mid <= n \div mid THEN ISqrtBetween(n, mid, hi)
            ELSE ISqrtBetween(n, lo, mid - 1)

ISqrt(n) == IF n <= 0 THEN 0 ELSE ISqrtBetween(n, 1, 65535)

\* brute force sigma_z(n): the sum of d^z over every d in 1..n that divides n
RECURSIVE SigmaUpTo(_, _, _)
SigmaUpTo(n, z, d) ==
    IF d = 0 THEN <<>>
    ELSE IF n % d = 0 THEN Norm(LAdd(LPow(ToLimbs(d), z), SigmaUpTo(n, z, d - 1)))
         ELSE SigmaUpTo(n, z, d - 1)

SigmaRef(n, z) == SigmaUpTo(n, z, n)

\* brute force number of divisors, as an integer
TauRef(n) == Cardinality({d \in 1..n : n % d = 0})

(***************************************************************************)
(* cdef class SigmaZ                                                       *)
(***************************************************************************)
Callers == {1, 2}

NoInst == [n |-> 0, z |-> 0]   \* the fields of an object before __cinit__ stores them

IdleCall ==
    [pc |-> "idle", kind |-> "none", tmp |-> NoInst, shown |-> <<>>,
     i |-> 0, total |-> <<>>, limit |-> 0, oth_div |-> 0,
     power_i |-> <<>>, power_oth |-> <<>>, ub |-> 0]

\* line 61: the test `n <= 0`
CinitBadN(n) == n <= 0

\* the exponent test as the docstring's "n <= 0 or z 0" can be read: z <= 0
CinitBadZInclusive(z) == z <= 0

\* line 63: the test `z < 0`
CinitBadZ(z) == z < 0

\* lines 61-62: raise ValueError("only acc positive integer")
CinitRaiseN ==
    /\ ctor = "pending"
    /\ CinitBadN(req.n)
    /\ ctor' = "ValueError: only acc positive integer"
    /\ UNCHANGED <<req, inst, frames, returned, reprs, libm, phivars>>

\* lines 63-64: raise ValueError("exponent must be non-negative")
CinitRaiseZ ==
    /\ ctor = "pending"
    /\ ~CinitBadN(req.n)
    /\ CinitBadZ(req.z)
    /\ ctor' = "ValueError: exponent must be non-negative"
    /\ UNCHANGED <<req, inst, frames, returned, reprs, libm, phivars>>

\* lines 66-67: self.n = n; self.z = z
CinitStore ==
    /\ ctor = "pending"
    /\ ~CinitBadN(req.n)
    /\ ~CinitBadZ(req.z)
    /\ inst' = [n |-> req.n, z |-> req.z]
    /\ ctor' = "ok"
    /\ UNCHANGED <<req, frames, returned, reprs, libm, phivars>>

\* the instance a call works on: __repr__ computes on its own SigmaZ(self.n, self.z)
Self(c) == IF frames[c].kind = "repr" THEN frames[c].tmp ELSE inst

\* a caller calls compute() on the shared instance
CallCompute(c) ==
    /\ ctor = "ok"
    /\ frames[c].pc = "idle"
    /\ frames' = [frames EXCEPT ![c] =
                    [IdleCall EXCEPT !.pc = "enter", !.kind = "compute"]]
    /\ UNCHANGED <<req, ctor, inst, returned, reprs, libm, phivars>>

\* line 117: a caller calls __repr__(): self.n and self.z are formatted and
\* SigmaZ(self.n, self.z) is constructed (its __cinit__ runs lines 61-67)
CallRepr(c) ==
    /\ ctor = "ok"
    /\ frames[c].pc = "idle"
    /\ frames' = [frames EXCEPT ![c] =
                    IF CinitBadN(inst.n) \/ CinitBadZ(inst.z)
                    THEN [IdleCall EXCEPT !.pc = "raised", !.kind = "repr"]
                    ELSE [IdleCall EXCEPT !.pc = "enter", !.kind = "repr",
                                          !.shown = <<inst.n, inst.z>>,
                                          !.tmp = [n |-> inst.n, z |-> inst.z]]]
    /\ UNCHANGED <<req, ctor, inst, returned, reprs, libm, phivars>>

\* lines 79-86: total = 0; i = 1; limit = <int>sqrt(self.n); if self.z == 0
CompEnter(c) ==
    /\ frames[c].pc = "enter"
    /\ frames' = [frames EXCEPT ![c] =
                    [@ EXCEPT !.pc = IF Self(c).z = 0 THEN "count" ELSE "pow",
                              !.total = <<>>, !.i = 1, !.limit = ISqrt(Self(c).n)]]
    /\ UNCHANGED <<req, ctor, inst, returned, reprs, libm, phivars>>

\* lines 88-94: the body of the z == 0 loop
CountBody(f, self) ==
    IF self.n % f.i = 0
    THEN [f EXCEPT !.oth_div = self.n \div f.i,
                   !.total = LAdd(f.total, IF f.i = self.n \div f.i THEN <<1>> ELSE <<2>>),
                   !.i = f.i + 1]
    ELSE [f EXCEPT !.i = f.i + 1]

\* lines 103-104: the values pow(b, z) can have: pow is a function, so a result
\* it gave before is the result it gives again
PowValues(b, z) ==
    IF \E t \in libm : t[1] = b /\ t[2] = z
    THEN {t[3] : t \in {u \in libm : u[1] = b /\ u[2] = z}}
    ELSE DoublesNear(LPow(ToLimbs(b), z))

\* the results of pow to remember: the inexact ones
PowSeen(b, z, v) == IF v = LPow(ToLimbs(b), z) THEN {} ELSE {<<b, z, v>>}

\* lines 99-110: the body of the general loop, pi and po the values of
\* pow(i, self.z) and pow(oth_div, self.z)
PowBody(f, self, pi, po) ==
    IF self.n % f.i = 0
    THEN LET oth == self.n \div f.i
         IN [f EXCEPT !.oth_div = oth, !.power_i = pi, !.power_oth = po,
                      !.total = IF f.i = oth THEN Norm(LAdd(f.total, pi))
                                ELSE Norm(LAdd(f.total, LAdd(pi, po))),
                      !.i = f.i + 1]
    ELSE [f EXCEPT !.i = f.i + 1]

\* lines 103-109: the casts <long>(...) and the additions stay within a C long
PowBodyDefined(f, self, pi, po) ==
    (self.n % f.i = 0) =>
        /\ FitsLong(pi)
        /\ FitsLong(po)
        /\ FitsLong(LAdd(pi, po))
        /\ FitsLong(PowBody(f, self, pi, po).total)

\* the pairs (pi, po) the two pow calls of one iteration can give
PowPairs(f, self) ==
    IF self.n % f.i # 0 THEN {<<(<<>>), (<<>>)>>}
    ELSE {pp \in PowValues(f.i, self.z) \X PowValues(self.n \div f.i, self.z) :
            (f.i = self.n \div f.i) => (pp[1] = pp[2])}

\* libm after the two pow calls of one iteration
LibmAfter(f, self, pp) ==
    IF self.n % f.i # 0 THEN libm
    ELSE libm \cup PowSeen(f.i, self.z, pp[1]) \cup PowSeen(self.n \div f.i, self.z, pp[2])

\* lines 87-94: while i * i <= self.n, one iteration
CompCount(c) ==
    /\ frames[c].pc = "count"
    /\ SquareFitsInt(frames[c].i)
    /\ frames[c].i * frames[c].i <= Self(c).n
    /\ frames' = [frames EXCEPT ![c] = CountBody(@, Self(c))]
    /\ UNCHANGED <<req, ctor, inst, returned, reprs, libm, phivars>>

\* lines 87, 95: the guard fails; return total
CompCountExit(c) ==
    /\ frames[c].pc = "count"
    /\ SquareFitsInt(frames[c].i)
    /\ frames[c].i * frames[c].i > Self(c).n
    /\ frames' = [frames EXCEPT ![c] = [@ EXCEPT !.pc = "ret"]]
    /\ UNCHANGED <<req, ctor, inst, returned, reprs, libm, phivars>>

\* lines 98-110: while i * i <= self.n, one iteration
CompPow(c) ==
    /\ frames[c].pc = "pow"
    /\ SquareFitsInt(frames[c].i)
    /\ frames[c].i * frames[c].i <= Self(c).n
    /\ \E pp \in PowPairs(frames[c], Self(c)) :
         /\ PowBodyDefined(frames[c], Self(c), pp[1], pp[2])
         /\ frames' = [frames EXCEPT ![c] = PowBody(@, Self(c), pp[1], pp[2])]
         /\ libm' = LibmAfter(frames[c], Self(c), pp)
    /\ UNCHANGED <<req, ctor, inst, returned, reprs, phivars>>

\* lines 103-109: a power does not fit a long (the cast of the double is
\* undefined) or the sum overflows the long: the call's outcome is undefined
CompPowUndefined(c) ==
    /\ frames[c].pc = "pow"
    /\ SquareFitsInt(frames[c].i)
    /\ frames[c].i * frames[c].i <= Self(c).n
    /\ \E pp \in PowPairs(frames[c], Self(c)) :
         /\ ~PowBodyDefined(frames[c], Self(c), pp[1], pp[2])
         /\ frames' = [frames EXCEPT ![c] = [@ EXCEPT !.pc = "undefined"]]
         /\ libm' = LibmAfter(frames[c], Self(c), pp)
    /\ UNCHANGED <<req, ctor, inst, returned, reprs, phivars>>

\* lines 98, 111: the guard fails; return total
CompPowExit(c) ==
    /\ frames[c].pc = "pow"
    /\ SquareFitsInt(frames[c].i)
    /\ frames[c].i * frames[c].i > Self(c).n
    /\ frames' = [frames EXCEPT ![c] = [@ EXCEPT !.pc = "ret"]]
    /\ UNCHANGED <<req, ctor, inst, returned, reprs, libm, phivars>>

\* lines 87, 98: i * i does not fit a C int: signed overflow, undefined.  The
\* comparison comes out either way (true with wraparound while the low 32 bits
\* are <= n as a signed int, false when the product is formed in a wider
\* register); the loop goes on or ends accordingly.
CompGuardOverflow(c) ==
    /\ frames[c].pc \in {"count", "pow"}
    /\ ~SquareFitsInt(frames[c].i)
    /\ frames[c].ub < MaxOverflows
    /\ \E taken \in BOOLEAN, pp \in PowPairs(frames[c], Self(c)) :
         /\ frames' = [frames EXCEPT ![c] =
                        IF ~taken THEN [@ EXCEPT !.pc = "ret", !.ub = @ + 1]
                        ELSE IF frames[c].pc = "count"
                             THEN [CountBody(@, Self(c)) EXCEPT !.ub = @ + 1]
                             ELSE [PowBody(@, Self(c), pp[1], pp[2]) EXCEPT !.ub = @ + 1]]
         /\ libm' = IF taken /\ frames[c].pc = "pow"
                    THEN LibmAfter(frames[c], Self(c), pp) ELSE libm
    /\ UNCHANGED <<req, ctor, inst, returned, reprs, phivars>>

\* lines 95, 111: compute() returns total; line 117: __repr__ formats it
CompReturn(c) ==
    /\ frames[c].pc = "ret"
    /\ IF frames[c].kind = "compute"
       THEN /\ returned' = returned \cup {frames[c].total}
            /\ UNCHANGED reprs
       ELSE /\ reprs' = reprs \cup {frames[c].shown \o <<frames[c].total>>}
            /\ UNCHANGED returned
    /\ frames' = [frames EXCEPT ![c] = [@ EXCEPT !.pc = "idle"]]
    /\ UNCHANGED <<req, ctor, inst, libm, phivars>>


(***************************************************************************)
(* euler_phi(int n) except -1                                              *)
(*                                                                         *)
(* phi.n is the parameter n, which the code uses as the working copy;      *)
(* phi.n0 remembers the argument; phi.applied is the set of p for which    *)
(* `result -= result // p` has run (history, not program state).  The      *)
(* locals result and i are declared at lines 147-148: phi.live says        *)
(* whether they have been initialised.                                     *)
(***************************************************************************)
ErrSentinel == 0 - 1   \* `except -1`: the C return value that signals an exception

IdleFrame ==
    [pc |-> "idle", n0 |-> 0, n |-> 0, result |-> 0, i |-> 0, live |-> FALSE,
     applied |-> {}, cret |-> 0]

\* the caller calls euler_phi(n) with the next argument
PhiCall ==
    /\ phi.pc = "idle"
    /\ pqueue # <<>>
    /\ phi' = [IdleFrame EXCEPT !.pc = "validate", !.n0 = Head(pqueue), !.n = Head(pqueue)]
    /\ pqueue' = Tail(pqueue)
    /\ UNCHANGED <<prets, sigmavars>>

\* the test written as `n < 0`: zero passes
PhiInvalidStrict(n) == n < 0

\* line 141: the test `n <= 0`
PhiInvalid(n) == n <= 0

\* lines 141-142: if n <= 0: raise ValueError
PhiRaise ==
    /\ phi.pc = "validate"
    /\ PhiInvalid(phi.n)
    /\ phi' = [phi EXCEPT !.pc = "raised", !.cret = ErrSentinel]
    /\ UNCHANGED <<pqueue, prets, sigmavars>>

\* lines 141-148: n > 0; n is a C int, so isinstance(n, int) holds of the
\* Python int it is converted to; result = n; i = 2
PhiInit ==
    /\ phi.pc = "validate"
    /\ ~PhiInvalid(phi.n)
    /\ phi' = [phi EXCEPT !.pc = "test2", !.result = phi.n, !.i = 2, !.live = TRUE]
    /\ UNCHANGED <<pqueue, prets, sigmavars>>

\* line 150: if n % 2 == 0
PhiTestTwo ==
    /\ phi.pc = "test2"
    /\ phi' = [phi EXCEPT !.pc = IF phi.n % 2 = 0 THEN "apply2" ELSE "set3"]
    /\ UNCHANGED <<pqueue, prets, sigmavars>>

\* line 153: result -= result // 2
PhiApplyTwo ==
    /\ phi.pc = "apply2"
    /\ phi' = [phi EXCEPT !.pc = "strip2",
                          !.result = phi.result - (phi.result \div 2),
                          !.applied = phi.applied \cup {2}]
    /\ UNCHANGED <<pqueue, prets, sigmavars>>

\* `if` in place of `while`: one factor 2 is removed
PhiStripTwoOnce ==
    /\ phi.pc = "strip2"
    /\ phi' = IF phi.n % 2 = 0
              THEN [phi EXCEPT !.n = phi.n \div 2, !.pc = "set3"]
              ELSE [phi EXCEPT !.pc = "set3"]
    /\ UNCHANGED <<pqueue, prets, sigmavars>>

\* lines 155-156: while n % 2 == 0: n //= 2   (one test, one iteration)
PhiStripTwo ==
    /\ phi.pc = "strip2"
    /\ phi' = IF phi.n % 2 = 0
              THEN [phi EXCEPT !.n = phi.n \div 2]
              ELSE [phi EXCEPT !.pc = "set3"]
    /\ UNCHANGED <<pqueue, prets, sigmavars>>

\* line 158: i = 3
PhiSetThree ==
    /\ phi.pc = "set3"
    /\ phi' = [phi EXCEPT !.pc = "guard", !.i = 3]
    /\ UNCHANGED <<pqueue, prets, sigmavars>>

\* the guard written as `i * i < n`
PhiGuardStrict ==
    /\ phi.pc = "guard"
    /\ SquareFitsInt(phi.i)
    /\ phi' = [phi EXCEPT !.pc = IF phi.i * phi.i < phi.n THEN "testi" ELSE "testn"]
    /\ UNCHANGED <<pqueue, prets, sigmavars>>

\* line 159: while i * i <= n.  The product is a C int for every i the loop
\* reaches with n < 46339^2 = 2147302921; beyond, it overflows (not modelled).
PhiGuard ==
    /\ phi.pc = "guard"
    /\ SquareFitsInt(phi.i)
    /\ phi' = [phi EXCEPT !.pc = IF phi.i * phi.i <= phi.n THEN "testi" ELSE "testn"]
    /\ UNCHANGED <<pqueue, prets, sigmavars>>

\* `i += 2` indented into the if: a candidate that is no factor is tried again
PhiTestIIncInside ==
    /\ phi.pc = "testi"
    /\ phi' = [phi EXCEPT !.pc = IF phi.n % phi.i = 0 THEN "applyi" ELSE "guard"]
    /\ UNCHANGED <<pqueue, prets, sigmavars>>

\* line 160: if n % i == 0
PhiTestI ==
    /\ phi.pc = "testi"
    /\ phi' = [phi EXCEPT !.pc = IF phi.n % phi.i = 0 THEN "applyi" ELSE "inc"]
    /\ UNCHANGED <<pqueue, prets, sigmavars>>

\* `result //= i` in place of `result -= result // i`
PhiApplyIDivides ==
    /\ phi.pc = "applyi"
    /\ phi' = [phi EXCEPT !.pc = "stripi",
                          !.result = phi.result \div phi.i,
                          !.applied = phi.applied \cup {phi.i}]
    /\ UNCHANGED <<pqueue, prets, sigmavars>>

\* line 163: result -= result // i
PhiApplyI ==
    /\ phi.pc = "applyi"
    /\ phi' = [phi EXCEPT !.pc = "stripi",
                          !.result = phi.result - (phi.result \div phi.i),
                          !.applied = phi.applied \cup {phi.i}]
    /\ UNCHANGED <<pqueue, prets, sigmavars>>

\* `if` in place of `while`: one factor i is removed
PhiStripIOnce ==
    /\ phi.pc = "stripi"
    /\ phi' = IF phi.n % phi.i = 0
              THEN [phi EXCEPT !.n = phi.n \div phi.i, !.pc = "inc"]
              ELSE [phi EXCEPT !.pc = "inc"]
    /\ UNCHANGED <<pqueue, prets, sigmavars>>

\* lines 165-166: while n % i == 0: n //= i   (one test, one iteration)
PhiStripI ==
    /\ phi.pc = "stripi"
    /\ phi' = IF phi.n % phi.i = 0
              THEN [phi EXCEPT !.n = phi.n \div phi.i]
              ELSE [phi EXCEPT !.pc = "inc"]
    /\ UNCHANGED <<pqueue, prets, sigmavars>>

\* line 167: i += 2
PhiInc ==
    /\ phi.pc = "inc"
    /\ phi' = [phi EXCEPT !.pc = "guard", !.i = phi.i + 2]
    /\ UNCHANGED <<pqueue, prets, sigmavars>>

\* line 170: if n > 1
PhiTestN ==
    /\ phi.pc = "testn"
    /\ phi' = [phi EXCEPT !.pc = IF phi.n > 1 THEN "applyn" ELSE "ret"]
    /\ UNCHANGED <<pqueue, prets, sigmavars>>

\* line 171: result -= result // n
PhiApplyN ==
    /\ phi.pc = "applyn"
    /\ phi' = [phi EXCEPT !.pc = "ret",
                          !.result = phi.result - (phi.result \div phi.n),
                          !.applied = phi.applied \cup {phi.n}]
    /\ UNCHANGED <<pqueue, prets, sigmavars>>

\* line 173: return result
PhiReturn ==
    /\ phi.pc = "ret"
    /\ prets' = Append(prets, <<phi.n0, phi.result>>)
    /\ phi' = [phi EXCEPT !.pc = "idle", !.cret = phi.result]
    /\ UNCHANGED <<pqueue, sigmavars>>

(***************************************************************************)
(* Initial states and specifications.                                      *)
(***************************************************************************)
\* no SigmaZ is constructed and nobody calls it
SigmaOff ==
    /\ req = NoInst
    /\ ctor = "off"
    /\ inst = NoInst
    /\ frames = [c \in Callers |-> [IdleCall EXCEPT !.pc = "absent"]]
    /\ returned = {}
    /\ reprs = {}
    /\ libm = {}

\* no euler_phi call is made
PhiOff ==
    /\ pqueue = <<>>
    /\ prets = <<>>
    /\ phi = IdleFrame

\* the arguments SigmaZ is constructed with: a grid around the valid range, the
\* ends of the C int range, and two arguments with powers beyond 2^53 and 2^63
SigmaArgs ==
    {[n |-> a, z |-> b] : a \in (0 - 1)..MaxSigmaN, b \in (0 - 1)..MaxSigmaZ}
        \cup {[n |-> MinInt, z |-> 0], [n |-> 1, z |-> MinInt], [n |-> MinInt, z |-> MinInt]}
        \cup {[n |-> 3, z |-> 34], [n |-> 2, z |-> 63]}

InitSigma ==
    /\ req \in SigmaArgs
    /\ ctor = "pending"
    /\ inst = NoInst
    /\ frames = [c \in Callers |-> IdleCall]
    /\ returned = {}
    /\ reprs = {}
    /\ libm = {}
    /\ PhiOff

NextSigma ==
    \/ CinitRaiseN
    \/ CinitRaiseZ
    \/ CinitStore
    \/ \E c \in Callers :
        \/ CallCompute(c)
        \/ CallRepr(c)
        \/ CompEnter(c)
        \/ CompCount(c)
        \/ CompCountExit(c)
        \/ CompPow(c)
        \/ CompPowUndefined(c)
        \/ CompPowExit(c)
        \/ CompReturn(c)

SpecSigma == InitSigma /\ [][NextSigma]_vars

\* arguments at the top of the C int range, around 46340^2 = 2147395600, the
\* largest square a C int holds; one caller
OverflowArgs ==
    {[n |-> MaxInt, z |-> 0], [n |-> MaxInt, z |-> 1],
     [n |-> 46340 * 46340, z |-> 0], [n |-> 46340 * 46340 - 1, z |-> 0],
     [n |-> 46340 * 46340 - 1, z |-> 1]}

InitOverflow ==
    /\ req \in OverflowArgs
    /\ ctor = "pending"
    /\ inst = NoInst
    /\ frames = [c \in Callers |-> IF c = 1 THEN IdleCall ELSE [IdleCall EXCEPT !.pc = "absent"]]
    /\ returned = {}
    /\ reprs = {}
    /\ libm = {}
    /\ PhiOff

NextOverflow ==
    \/ CinitStore
    \/ \E c \in Callers :
        \/ CallCompute(c)
        \/ CompEnter(c)
        \/ CompCount(c)
        \/ CompCountExit(c)
        \/ CompPow(c)
        \/ CompPowExit(c)
        \/ CompGuardOverflow(c)
        \/ CompReturn(c)

SpecOverflow == InitOverflow /\ [][NextOverflow]_vars

InitPhi ==
    /\ pqueue \in {<<x>> : x \in (0 - MinPhiN)..MaxPhiN}
                  \cup {<<a, b, a * b>> : a \in 1..MaxAB, b \in 1..MaxAB}
    /\ prets = <<>>
    /\ phi = IdleFrame
    /\ SigmaOff

NextPhi ==
    \/ PhiCall
    \/ PhiRaise
    \/ PhiInit
    \/ PhiTestTwo
    \/ PhiApplyTwo
    \/ PhiStripTwo
    \/ PhiSetThree
    \/ PhiGuard
    \/ PhiTestI
    \/ PhiApplyI
    \/ PhiStripI
    \/ PhiInc
    \/ PhiTestN
    \/ PhiApplyN
    \/ PhiReturn

SpecPhi == InitPhi /\ [][NextPhi]_vars

\* the interpreter runs a call to its end: no step of euler_phi waits for anything
FairSpecPhi == InitPhi /\ [][NextPhi]_vars /\ WF_vars(NextPhi)

(***************************************************************************)
(* Claims about SigmaZ.                                                    *)
(***************************************************************************)

\* C1: for every n > 0 and z >= 0, compute() returns the sum of d^z over the
\* divisors d of n found by testing every d in 1..n; for z = 0 that is the
\* number of divisors of n (a square root i = n/i counted once).
C1_ComputeIsDivisorPowerSum ==
    \A v \in returned :
        /\ v = SigmaRef(inst.n, inst.z)
        /\ (inst.z = 0) => (v = ToLimbs(TauRef(inst.n)))

\* what does hold: compute() returns the brute force sum whenever every power
\* d^z it forms has at most 53 bits
C1_ExactWhilePowersFitDouble ==
    (BitLen(LPow(ToLimbs(inst.n), inst.z)) <= DoubleMantissaBits) =>
        \A v \in returned :
            /\ v = SigmaRef(inst.n, inst.z)
            /\ (inst.z = 0) => (v = ToLimbs(TauRef(inst.n)))

\* C3: the construction of SigmaZ(n, z) ends in a ValueError exactly when
\* n <= 0 or z < 0, and then no instance holds n and z and nothing is ever
\* called; otherwise it succeeds and the instance holds exactly n and z; every
\* instance compute() runs on has n > 0 and z >= 0.
C3_CinitValidates ==
    /\ (ctor = "pending") =>
            (ENABLED (CinitRaiseN \/ CinitRaiseZ) <=> (req.n <= 0 \/ req.z < 0))
    /\ (ctor = "pending") =>
            (ENABLED CinitStore <=> (req.n > 0 /\ req.z >= 0))
    /\ (ctor \notin {"pending", "ok"}) =>
            /\ req.n <= 0 \/ req.z < 0
            /\ inst = NoInst
            /\ \A c \in Callers : frames[c].pc = "idle"
            /\ returned = {} /\ reprs = {}
    /\ (ctor = "ok") =>
            /\ req.n > 0 /\ req.z >= 0
            /\ inst = [n |-> req.n, z |-> req.z]
    /\ \A c \in Callers :
            (frames[c].pc # "idle") => (ctor = "ok" /\ Self(c).n > 0 /\ Self(c).z >= 0)

\* the construction failed on the exponent alone
C3_Witness ==
    /\ ctor = "ValueError: exponent must be non-negative"
    /\ req.n > 0
    /\ req.z = 0 - 1

\* C5: compute() and __repr__() calls on one instance, interleaved among the
\* callers, leave n and z unchanged, and each returns the same value sigma_z(n).
C5_ComputeIdempotent ==
    (ctor = "ok") =>
        /\ inst = [n |-> req.n, z |-> req.z]
        /\ \A v \in returned : v = SigmaRef(inst.n, inst.z)
        /\ \A r \in reprs : r = <<inst.n, inst.z, SigmaRef(inst.n, inst.z)>>

\* what does hold: the instance is never written, every caller's locals are its
\* own, and all calls on the instance return one and the same value
C5_ReadOnlyAndAgree ==
    (ctor = "ok") =>
        /\ inst = [n |-> req.n, z |-> req.z]
        /\ Cardinality(returned) <= 1
        /\ Cardinality(reprs) <= 1
        /\ \A v \in returned : \A r \in reprs : r = <<inst.n, inst.z, v>>

\* C9: for every n of the positive C int range the guard product i*i stays in
\* the int range, the loop body runs exactly for i = 1 .. floor(sqrt(n)), and
\* the loop then ends.
C9_LoopStopsAtSqrt ==
    \A c \in Callers :
        /\ (frames[c].pc \in {"count", "pow"}) =>
                /\ SquareFitsInt(frames[c].i)
                /\ frames[c].i <= ISqrt(Self(c).n) + 1
        /\ (frames[c].pc = "ret") =>
                /\ frames[c].i = ISqrt(Self(c).n) + 1
                /\ frames[c].ub = 0

\* what does hold: the claim for every n below 46340^2 = 2147395600
C9_HoldsBelowLargestSquare ==
    \A c \in Callers :
        (frames[c].pc \in {"count", "pow", "ret"} /\ Self(c).n < 46340 * 46340) =>
            /\ SquareFitsInt(frames[c].i)
            /\ frames[c].i <= ISqrt(Self(c).n) + 1
            /\ (frames[c].pc = "ret") => (frames[c].i = ISqrt(Self(c).n) + 1)

(***************************************************************************)
(* Claims about euler_phi.                                                 *)
(***************************************************************************)

\* C2: every call euler_phi(n) with n >= 1 that returned, returned the number
\* of k in 1..n with gcd(k, n) = 1 (so 1 for n = 1 and p - 1 for a prime p).
C2_PhiIsTotient ==
    \A k \in 1..Len(prets) :
        /\ prets[k][1] >= 1
        /\ prets[k][2] = PhiRef(prets[k][1])
        /\ (prets[k][1] = 1 => prets[k][2] = 1)
        /\ (IsPrime(prets[k][1]) => prets[k][2] = prets[k][1] - 1)

\* a call with an argument that has 2, an odd prime with multiplicity and a
\* final remainder has returned
C2_Witness ==
    \E k \in 1..Len(prets) :
        /\ prets[k][1] % 4 = 0
        /\ prets[k][1] % 3 = 0
        /\ Cardinality(PrimeFactors(prets[k][1])) >= 3

\* C4: euler_phi(n) with n <= 0 raises before result and i are initialised and
\* with the working copy untouched, no step of the computation runs for it, the
\* C return value is the error sentinel, and no call with n >= 1 returns the
\* sentinel or any value < 1.
C4_PhiValidation ==
    /\ (phi.pc # "idle" /\ phi.n0 <= 0) =>
            /\ phi.pc \in {"validate", "raised"}
            /\ ~phi.live
            /\ phi.n = phi.n0
            /\ phi.applied = {}
            /\ prets = <<>>
    /\ (phi.pc = "validate" /\ phi.n0 <= 0) => (ENABLED PhiRaise /\ ~ENABLED PhiInit)
    /\ (phi.pc = "validate" /\ phi.n0 >= 1) => (ENABLED PhiInit /\ ~ENABLED PhiRaise)
    /\ (phi.pc = "raised") => (phi.n0 <= 0 /\ phi.cret = ErrSentinel)
    /\ \A k \in 1..Len(prets) :
            prets[k][1] >= 1 /\ prets[k][2] >= 1 /\ prets[k][2] # ErrSentinel

\* euler_phi(0) has raised
C4_Witness == phi.pc = "raised" /\ phi.n0 = 0

\* C6: for coprime a, b >= 1, euler_phi(a*b) = euler_phi(a) * euler_phi(b).
C6_PhiMultiplicative ==
    (/\ Len(prets) = 3
     /\ prets[3][1] = prets[1][1] * prets[2][1]
     /\ Gcd(prets[1][1], prets[2][1]) = 1)
        => prets[3][2] = prets[1][2] * prets[2][2]

\* the three calls returned for coprime a, b > 2 that are not both prime
C6_Witness ==
    /\ Len(prets) = 3
    /\ prets[3][1] = prets[1][1] * prets[2][1]
    /\ Gcd(prets[1][1], prets[2][1]) = 1
    /\ prets[1][1] > 2 /\ prets[2][1] > 2
    /\ ~IsPrime(prets[1][1])

\* C7 as stated: when the odd-candidate loop has ended with m > 1, m is a prime
\* factor of the original n and m is greater than the square root of the original n.
C7_AsStated ==
    (phi.pc = "applyn") =>
        /\ IsPrime(phi.n)
        /\ phi.n0 % phi.n = 0
        /\ phi.n * phi.n > phi.n0

\* C7 amended: when the odd-candidate loop has ended with m > 1, m is a prime
\* factor of the original n, it is greater than every other prime factor of the
\* original n, and i*i > m for the loop's i (m exceeds the square root of the
\* working copy, not of the original n).
C7_RemainderIsLargestPrime ==
    (phi.pc = "applyn") =>
        /\ IsPrime(phi.n)
        /\ phi.n0 % phi.n = 0
        /\ \A q \in PrimeFactors(phi.n0) : q = phi.n \/ q < phi.n
        /\ phi.i * phi.i > phi.n

\* the loop ended with a remainder m > 1 that is not above the square root of
\* the original n
C7_Witness == phi.pc = "applyn" /\ phi.n * phi.n <= phi.n0 /\ phi.n > 2

\* the prime whose occurrences the working copy may still hold
PhiPending ==
    IF phi.pc = "strip2" THEN {2}
    ELSE IF phi.pc = "stripi" THEN {phi.i}
    ELSE IF phi.pc \in {"ret", "idle"} /\ phi.n > 1 THEN {phi.n}
    ELSE {}

\* at a step `result -= result // p`, p is a prime that divides result
PhiExactStep ==
    /\ (phi.pc = "apply2") => (phi.result % 2 = 0)
    /\ (phi.pc = "applyi") => (IsPrime(phi.i) /\ phi.result % phi.i = 0)
    /\ (phi.pc = "applyn") => (IsPrime(phi.n) /\ phi.result % phi.n = 0)

\* result = n0 * PRODUCT (1 - 1/q) over the primes q of applied
PhiResultIsProduct ==
    /\ \A q \in phi.applied : IsPrime(q) /\ phi.n0 % q = 0
    /\ phi.result * Product(phi.applied) = phi.n0 * ProductLess1(phi.applied)

\* C8 as stated: every step `result -= result // p` divides exactly, and in
\* every reachable state result = n0 * PRODUCT (1 - 1/q) over the primes
\* processed and the working copy is n0 with all occurrences of those primes
\* removed.
C8_AsStated ==
    phi.live =>
        /\ PhiExactStep
        /\ PhiResultIsProduct
        /\ phi.n = StripAll(phi.n0, phi.applied)

\* C8 amended: every step `result -= result // p` divides exactly, and in every
\* reachable state result = n0 * PRODUCT (1 - 1/q) over the primes processed
\* and the working copy is n0 with all occurrences of those primes removed,
\* except the prime processed last: while its stripping loop runs the working
\* copy still holds some of its occurrences, and the final remainder is never
\* divided out of the working copy.
C8_ProductInvariant ==
    phi.live =>
        /\ PhiExactStep
        /\ PhiResultIsProduct
        /\ PhiPending \subseteq phi.applied
        /\ StripAll(phi.n, PhiPending) = StripAll(phi.n0, phi.applied)
        /\ StripAll(phi.n0, phi.applied \ PhiPending) % phi.n = 0
        /\ (phi.pc \in {"ret", "idle"}) => phi.n = StripAll(phi.n0, phi.applied \ PhiPending)

\* a call is about to return after steps for 2, an odd i and the final remainder
C8_Witness ==
    /\ phi.pc = "ret"
    /\ 2 \in phi.applied
    /\ Cardinality(phi.applied) >= 3
    /\ phi.n > 1

\* one iteration of a stripping loop
PhiStripStep == phi.pc \in {"strip2", "stripi"} /\ phi'.pc = phi.pc /\ phi' # phi
\* the test that ends a stripping loop
PhiStripEnd == phi.pc \in {"strip2", "stripi"} /\ phi'.pc # phi.pc

\* C10: every call euler_phi(n) with n >= 1 reaches its return; an iteration of
\* a stripping loop strictly decreases the working copy and leaves it >= 1; the
\* loop ends with the working copy no longer divisible by the factor; the guard
\* of the outer loop is only evaluated again after `i += 2`, which every
\* iteration reaches; the working copy never becomes 0 or negative.
C10_PhiTerminates ==
    /\ [](phi.live => phi.n >= 1)
    /\ [][PhiStripStep => (phi'.n < phi.n /\ phi'.n >= 1)]_vars
    /\ [][PhiStripEnd =>
            (phi.n >= 1 /\ phi.n % (IF phi.pc = "strip2" THEN 2 ELSE phi.i) # 0)]_vars
    /\ [][(phi'.pc = "guard" /\ phi.pc # "set3") =>
            (phi.pc = "inc" /\ phi'.i = phi.i + 2)]_vars
    /\ (phi.pc \in {"testi", "applyi", "stripi"}) ~> (phi.pc = "inc")
    /\ (phi.pc = "validate" /\ phi.n0 >= 1) ~> (phi.pc = "ret")

\* a call returns whose two stripping loops both ran more than once
C10_Witness == phi.pc = "ret" /\ phi.n0 % 4 = 0 /\ phi.n0 % 9 = 0

====
